---- MODULE Spec2Model ----
(***************************************************************************)
(* Portfolio analytics: DataFetcher.fetch_all_assets, the PortfolioAnalyzer *)
(* operations and the Dashboard render pass, as state machines.             *)
(*                                                                          *)
(* Floating-point numbers are modelled as exact rationals extended with     *)
(* the IEEE values NaN, +Inf and -Inf; rounding is abstracted away, the     *)
(* division-by-zero and NaN-propagation rules of numpy/pandas are kept.     *)
(***************************************************************************)
EXTENDS Integers, Sequences, FiniteSets, TLC

VARIABLES
    asset_data,     \* PortfolioAnalyzer.asset_data / the mapping fetch_all_assets builds
    weights,        \* PortfolioAnalyzer.weights
    op,             \* the operation that produced `result` ("init" before any call)
    arg,            \* the argument of that operation
    result,         \* what that operation returned, or the exception it raised
    portfolio,      \* fetch_all_assets: the portfolio spec being fetched
    pos,            \* fetch_all_assets: <<asset-type index, symbol index>> of the loop
    data,           \* fetch_all_assets: the local variable `data`
    log,            \* fetch_all_assets: what each fetch_* call returned, in call order
    session_state,  \* Dashboard: st.session_state
    widgets         \* Dashboard: the values held by the sidebar's input widgets

vars == <<asset_data, weights, op, arg, result, portfolio, pos, data, log,
          session_state, widgets>>

(***************************************************************************)
(* Bounds of the model.                                                     *)
(***************************************************************************)
MaxCloses == 4       \* closing prices held by an analyzer, over all its symbols
MaxPrice == 2        \* largest closing price of those series
RebalMaxCloses == 3  \* the same two bounds for the rebalancing operations, which
RebalMaxPrice == 3   \*   read the latest close only
WeightSteps == 2     \* analyzer weights are k/WeightSteps, k in 0..WeightSteps
MaxSymbols == 3      \* symbols of a portfolio spec handed to fetch_all_assets
MaxPayload == 2      \* distinct non-empty answers an upstream source can give
MaxTokens == 3       \* symbols typed into the three sidebar text inputs, in all

Symbols == {"A", "B"}
SymOrder == <<"A", "B", "C">>    \* iteration order of a dict over these keys

(***************************************************************************)
(* Numbers: [k |-> "fin", n, d] is the rational n/d in lowest terms, d > 0; *)
(* [k |-> "nan"] is NaN; [k |-> "inf", n |-> +1 or -1] is +Inf or -Inf.     *)
(***************************************************************************)
RECURSIVE GCD(_, _)
GCD(a, b) == IF b = 0 THEN a ELSE GCD(b, a % b)

Abs(i) == IF i < 0 THEN -i ELSE i

Sign(i) == IF i < 0 THEN -1 ELSE IF i = 0 THEN 0 ELSE 1

R(n, d) ==
    LET s == IF d < 0 THEN -1 ELSE 1
        g == GCD(Abs(n), Abs(d))
    IN  [k |-> "fin", n |-> (s * n) \div g, d |-> (s * d) \div g]

NaN == [k |-> "nan", n |-> 0, d |-> 1]
Inf(s) == [k |-> "inf", n |-> s, d |-> 1]
Zero == R(0, 1)
One == R(1, 1)

IsNaN(x) == x.k = "nan"
IsFin(x) == x.k = "fin"
IsInf(x) == x.k = "inf"

FNeg(x) == [x EXCEPT !.n = -x.n]

FAdd(x, y) ==
    IF IsNaN(x) \/ IsNaN(y) THEN NaN
    ELSE IF IsInf(x) /\ IsInf(y) THEN (IF x.n = y.n THEN x ELSE NaN)
    ELSE IF IsInf(x) THEN x
    ELSE IF IsInf(y) THEN y
    ELSE R(x.n * y.d + y.n * x.d, x.d * y.d)

FSub(x, y) == FAdd(x, FNeg(y))

FMul(x, y) ==
    IF IsNaN(x) \/ IsNaN(y) THEN NaN
    ELSE IF IsInf(x) \/ IsInf(y)
         THEN (IF x.n = 0 \/ y.n = 0 THEN NaN ELSE Inf(Sign(x.n) * Sign(y.n)))
    ELSE R(x.n * y.n, x.d * y.d)

\* numpy float64 division: x/0 is NaN, +Inf or -Inf (a warning, no exception)
FDiv(x, y) ==
    IF IsNaN(x) \/ IsNaN(y) THEN NaN
    ELSE IF IsInf(x) THEN (IF IsInf(y) THEN NaN
                           ELSE Inf(x.n * (IF y.n < 0 THEN -1 ELSE 1)))
    ELSE IF IsInf(y) THEN Zero
    ELSE IF y.n = 0 THEN (IF x.n = 0 THEN NaN ELSE Inf(Sign(x.n)))
    ELSE R(x.n * y.d, x.d * y.n)

\* comparisons with NaN are False
FLt(x, y) ==
    IF IsNaN(x) \/ IsNaN(y) THEN FALSE
    ELSE IF IsInf(x) THEN x.n < 0 /\ ~(IsInf(y) /\ y.n < 0)
    ELSE IF IsInf(y) THEN y.n > 0
    ELSE x.n * y.d < y.n * x.d

FGt(x, y) == FLt(y, x)

FAbs(x) == [x EXCEPT !.n = Abs(x.n)]

(***************************************************************************)
(* pandas: a Series is a sequence of numbers over the dates 1..n; a         *)
(* DataFrame is [n |-> number of rows, col |-> symbol -> Series of n].      *)
(***************************************************************************)
Max(a, b) == IF a > b THEN a ELSE b

\* the keys of a dict, in iteration order
Keys(f) == SelectSeq(SymOrder, LAMBDA s : s \in DOMAIN f)

RECURSIVE MaxLenOf(_, _)
MaxLenOf(d, ks) ==
    IF ks = <<>> THEN 0 ELSE Max(Len(d[Head(ks)]), MaxLenOf(d, Tail(ks)))

\* pd.DataFrame(dict of Series): the union of the indices, gaps are NaN
DataFrame(d) ==
    LET n == MaxLenOf(d, Keys(d))
    IN  [n |-> n,
         col |-> [s \in DOMAIN d |->
                    [t \in 1..n |-> IF t <= Len(d[s]) THEN d[s][t] ELSE NaN]]]

\* data['Close'] as floats
Close(series) == [t \in 1..Len(series) |-> R(series[t], 1)]

\* a plausible slip: the day-over-day difference instead of the fractional change
pct_change_diff(close) ==
    [t \in 1..Len(close) |->
        IF t = 1 THEN NaN ELSE FSub(close[t], close[t - 1])]

\* Series.pct_change(): close[t]/close[t-1] - 1, NaN at the first date
pct_change(close) ==
    [t \in 1..Len(close) |->
        IF t = 1 THEN NaN ELSE FSub(FDiv(close[t], close[t - 1]), One)]

\* DataFrame.mul(Series): columns are aligned with the Series index, a
\* column missing on either side is all NaN
FrameMul(frame, ser) ==
    [n |-> frame.n,
     col |-> [s \in DOMAIN frame.col \cup DOMAIN ser |->
                [t \in 1..frame.n |->
                    IF s \in DOMAIN frame.col /\ s \in DOMAIN ser
                    THEN FMul(frame.col[s][t], ser[s]) ELSE NaN]]]

\* a plausible slip: sum(axis=1, skipna=False), a NaN cell makes the row NaN
RECURSIVE RowSumNoSkip(_, _, _)
RowSumNoSkip(frame, t, ks) ==
    IF ks = <<>> THEN Zero
    ELSE FAdd(frame.col[Head(ks)][t], RowSumNoSkip(frame, t, Tail(ks)))

RECURSIVE RowSum(_, _, _)
RowSum(frame, t, ks) ==
    IF ks = <<>> THEN Zero
    ELSE LET x == frame.col[Head(ks)][t]
         IN  IF IsNaN(x) THEN RowSum(frame, t, Tail(ks))
             ELSE FAdd(x, RowSum(frame, t, Tail(ks)))

\* DataFrame.sum(axis=1): NaN cells are skipped, an all-NaN row sums to 0
SumAxis1(frame) == [t \in 1..frame.n |-> RowSum(frame, t, Keys(frame.col))]

RECURSIVE CumProdAt(_, _)
CumProdAt(ser, t) == IF t = 0 THEN One ELSE FMul(CumProdAt(ser, t - 1), ser[t])

\* Series.cumprod()
CumProd(ser) == [t \in 1..Len(ser) |-> CumProdAt(ser, t)]

RECURSIVE SeqSum(_)
SeqSum(ser) == IF ser = <<>> THEN Zero ELSE FAdd(Head(ser), SeqSum(Tail(ser)))

\* Series.mean(): NaN for an empty Series
Mean(ser) == IF Len(ser) = 0 THEN NaN ELSE FDiv(SeqSum(ser), R(Len(ser), 1))

\* the square of Series.std() (ddof=1): NaN for fewer than two values
Variance(ser) ==
    IF Len(ser) < 2 THEN NaN
    ELSE LET m == Mean(ser)
             sq == [t \in 1..Len(ser) |-> FMul(FSub(ser[t], m), FSub(ser[t], m))]
         IN  FDiv(SeqSum(sq), R(Len(ser) - 1, 1))

(***************************************************************************)
(* PortfolioAnalyzer                                                        *)
(***************************************************************************)
TradingDays == 252
risk_free_rate == R(3, 100)
DefaultThreshold == R(1, 20)

Raise(e) == [status |-> e]

calculate_returns(ad) ==
    DataFrame([s \in DOMAIN ad |-> pct_change(Close(ad[s]))])

PortfolioReturns(ad, w) == SumAxis1(FrameMul(calculate_returns(ad), w))

calculate_portfolio_value(ad, w, initial_investment) ==
    LET portfolio_returns == PortfolioReturns(ad, w)
        growth == [t \in 1..Len(portfolio_returns) |-> FAdd(One, portfolio_returns[t])]
        cum == CumProd(growth)
    IN  [t \in 1..Len(cum) |-> FMul(cum[t], initial_investment)]

\* c * sqrt(v) for a finite c and a finite v > 0, kept symbolic
Surd(c, v) == [k |-> "surd", c |-> c, v |-> v]

\* Series.std() * np.sqrt(252)
AnnualizedStd(var) ==
    IF ~IsFin(var) THEN NaN
    ELSE IF var.n = 0 THEN Zero
    ELSE Surd(One, FMul(var, R(TradingDays, 1)))

\* np.sqrt(252) * mean / std, with std = sqrt(var): numpy division, no guard
SharpeRatio(mean, var) ==
    IF ~IsFin(mean) \/ ~IsFin(var) THEN NaN
    ELSE IF var.n = 0 THEN FDiv(mean, Zero)
    ELSE Surd(mean, FDiv(R(TradingDays, 1), var))

\* annual_return / downside_std if downside_std != 0 else np.nan
SortinoRatio(annual_return, dvar) ==
    LET downside_std == AnnualizedStd(dvar)
    IN  IF downside_std # Zero
        THEN (IF IsNaN(downside_std) \/ ~IsFin(annual_return) THEN NaN
              ELSE Surd(annual_return,
                        FDiv(One, FMul(dvar, R(TradingDays, 1)))))
        ELSE NaN

\* stats.norm.ppf(0.05, loc, scale): NaN unless scale > 0
NormPpf(mean, var) ==
    IF IsFin(mean) /\ IsFin(var) /\ var.n > 0
    THEN [k |-> "ppf", loc |-> mean, v |-> var]
    ELSE NaN

calculate_risk_metrics(ad, w) ==
    LET portfolio_returns == PortfolioReturns(ad, w)
        mean == Mean(portfolio_returns)
        var == Variance(portfolio_returns)
        annual_return == FMul(mean, R(TradingDays, 1))
        excess_returns ==
            [t \in 1..Len(portfolio_returns) |->
                FSub(portfolio_returns[t], FDiv(risk_free_rate, R(TradingDays, 1)))]
        negative_returns == SelectSeq(portfolio_returns, LAMBDA x : FLt(x, Zero))
    IN  [annual_return |-> annual_return,
         annual_volatility |-> AnnualizedStd(var),
         sharpe_ratio |-> SharpeRatio(Mean(excess_returns), var),
         sortino_ratio |-> SortinoRatio(annual_return, Variance(negative_returns)),
         var_95 |-> NormPpf(mean, var)]

\* data['Close'].iloc[-1]
LatestClose(series) == R(series[Len(series)], 1)

\* lines 101-105: position values in iteration order, or the exception raised
RECURSIVE PositionValues(_, _, _, _)
PositionValues(ad, w, ks, acc) ==
    IF ks = <<>> THEN [status |-> "ok", values |-> acc.values, total |-> acc.total]
    ELSE LET symbol == Head(ks) IN
         IF Len(ad[symbol]) = 0 THEN Raise("IndexError")
         ELSE IF symbol \notin DOMAIN w THEN Raise("KeyError")
         ELSE LET position_value == FMul(LatestClose(ad[symbol]), w[symbol])
              IN  PositionValues(ad, w, Tail(ks),
                     [values |-> [s \in DOMAIN acc.values \cup {symbol} |->
                                     IF s = symbol THEN position_value
                                     ELSE acc.values[s]],
                      total |-> FAdd(acc.total, position_value)])

\* a plausible slip: >= where the code has >
DriftedOrEqual(d, threshold) == ~FLt(FAbs(d), threshold) /\ ~IsNaN(d)

\* line 115: abs(drift[symbol]) > threshold
Drifted(d, threshold) == FGt(FAbs(d), threshold)

check_rebalancing_needs(ad, w, threshold) ==
    LET pv == PositionValues(ad, w, Keys(ad), [values |-> <<>>, total |-> Zero])
    IN  IF pv.status # "ok" THEN pv
        ELSE LET current_weights ==
                     [s \in DOMAIN pv.values |-> FDiv(pv.values[s], pv.total)]
             IN  IF \E s \in DOMAIN w : s \notin DOMAIN current_weights
                 THEN Raise("KeyError")
                 ELSE LET drift == [s \in DOMAIN w |->
                                       FSub(current_weights[s], w[s])]
                      IN  [status |-> "ok",
                           rebalance_needed |->
                               \E s \in DOMAIN w : Drifted(drift[s], threshold),
                           current_weights |-> current_weights,
                           drift |-> drift,
                           target_weights |-> w]

\* a plausible slip: the early return taken on the wrong branch
NothingToTradeInverted(rebalance_info) == rebalance_info.rebalance_needed

\* line 130: if not rebalance_info['rebalance_needed']
NothingToTrade(rebalance_info) == ~rebalance_info.rebalance_needed

get_rebalancing_trades(ad, w, portfolio_value) ==
    LET rebalance_info == check_rebalancing_needs(ad, w, DefaultThreshold)
    IN  IF rebalance_info.status # "ok" THEN rebalance_info
        ELSE IF NothingToTrade(rebalance_info)
        THEN [status |-> "ok", trades |-> <<>>]
        ELSE IF \E s \in DOMAIN w :
                    s \notin DOMAIN rebalance_info.current_weights \/ s \notin DOMAIN ad
        THEN Raise("KeyError")
        ELSE [status |-> "ok",
              trades |-> [s \in DOMAIN w |->
                  LET current_value ==
                          FMul(portfolio_value, rebalance_info.current_weights[s])
                      target_value == FMul(portfolio_value, w[s])
                      trade_value == FSub(target_value, current_value)
                  IN  [units |-> FDiv(trade_value, LatestClose(ad[s])),
                       value |-> trade_value,
                       action |-> IF FGt(trade_value, Zero) THEN "buy" ELSE "sell"]]]

\* what EfficientFrontier.max_sharpe() can do with a price table: the library
\* is outside the repository, so every outcome it documents is possible
OptimizerOutcomes == {"solved", "OptimizationError", "ValueError"}

\* weight vectors the optimizer can return: long-only, fully invested
RECURSIVE SetSum(_, _)
SetSum(f, S) ==
    IF S = {} THEN Zero
    ELSE LET s == CHOOSE x \in S : TRUE IN FAdd(f[s], SetSum(f, S \ {s}))

Grid == {R(i, WeightSteps) : i \in 0..WeightSteps}

LongOnly(S) == {f \in [S -> Grid] : SetSum(f, S) = One}

optimize_portfolio(ad, outcome, cleaned_weights) ==
    IF outcome # "solved" THEN Raise(outcome)
    ELSE [status |-> "ok",
          optimal_weights |-> cleaned_weights,
          performance |-> "portfolio_performance"]

(***************************************************************************)
(* The analyzer as a state machine: Init is the state after __init__, with  *)
(* any price data and any weight map; each action is one method call.       *)
(***************************************************************************)
SeriesOf(len, maxPrice) == [1..len -> 1..maxPrice]

\* asset data over the symbols S holding at most `closes` prices in all; every
\* series is non-empty, as fetch_all_assets never stores an empty one
RECURSIVE AssetDataOver(_, _, _)
AssetDataOver(S, closes, maxPrice) ==
    IF S = {} THEN {<<>>}
    ELSE LET s == CHOOSE x \in S : TRUE
             rest == S \ {s}
         IN  UNION {
               UNION {
                 {[x \in S |-> IF x = s THEN ser ELSE r[x]] :
                      ser \in SeriesOf(len, maxPrice)} :
                 r \in AssetDataOver(rest, closes - len, maxPrice)} :
               len \in 1..(closes - Cardinality(rest))}

AssetDataSet(closes, maxPrice) ==
    UNION {AssetDataOver(S, closes, maxPrice) : S \in SUBSET Symbols}

WeightMaps == UNION {[S -> Grid] : S \in SUBSET Symbols}

Investments == {R(100000, 1), R(50, 1)}
Thresholds == {R(1, 20), R(1, 10), R(3, 20)}
PortfolioValues == {R(1000, 1), Zero}

NoFetch == [stocks |-> <<>>, crypto |-> <<>>, commodities |-> <<>>]

AnalyzerInit(closes, maxPrice) ==
    /\ asset_data \in AssetDataSet(closes, maxPrice)
    /\ weights \in WeightMaps
    /\ op = "init"
    /\ arg = <<>>
    /\ result = <<>>
    /\ portfolio = NoFetch
    /\ pos = <<0, 0>>
    /\ data = "unbound"
    /\ log = <<>>
    /\ session_state = <<>>
    /\ widgets = <<>>

Call(name, a, r) ==
    /\ op' = name
    /\ arg' = a
    /\ result' = r
    /\ UNCHANGED <<asset_data, weights, portfolio, pos, data, log, session_state,
                   widgets>>

CalculatePortfolioValue ==
    \E initial_investment \in Investments :
        Call("calculate_portfolio_value", initial_investment,
             calculate_portfolio_value(asset_data, weights, initial_investment))

CalculateRiskMetrics ==
    Call("calculate_risk_metrics", <<>>, calculate_risk_metrics(asset_data, weights))

OptimizePortfolio ==
    \E outcome \in OptimizerOutcomes :
        \E cleaned_weights \in LongOnly(DOMAIN asset_data) \cup {<<>>} :
            /\ (outcome = "solved") = (cleaned_weights # <<>>)
            /\ Call("optimize_portfolio", [outcome |-> outcome],
                    optimize_portfolio(asset_data, outcome, cleaned_weights))

CheckRebalancingNeeds ==
    \E threshold \in Thresholds :
        Call("check_rebalancing_needs", threshold,
             check_rebalancing_needs(asset_data, weights, threshold))

GetRebalancingTrades ==
    \E portfolio_value \in PortfolioValues :
        Call("get_rebalancing_trades", portfolio_value,
             get_rebalancing_trades(asset_data, weights, portfolio_value))

SeriesInit == AnalyzerInit(MaxCloses, MaxPrice)

\* No method assigns to self, so a call on a used analyzer computes what the
\* same call computes on a fresh one: the series operations are each applied
\* to the analyzer as constructed.
Fresh == op = "init"

SeriesNext ==
    \/ Fresh /\ CalculatePortfolioValue
    \/ Fresh /\ CalculateRiskMetrics
    \/ Fresh /\ OptimizePortfolio

SpecSeries == SeriesInit /\ [][SeriesNext]_vars

RebalInit == AnalyzerInit(RebalMaxCloses, RebalMaxPrice)

RebalNext ==
    \/ CheckRebalancingNeeds
    \/ GetRebalancingTrades

SpecRebal == RebalInit /\ [][RebalNext]_vars

(***************************************************************************)
(* Reference definitions the properties are stated with: exact arithmetic   *)
(* over sets, written from the formulas and not from the pandas pipeline.   *)
(***************************************************************************)
Returned(r) == r.status = "ok"

\* every weighted symbol has a price series and the other way round
Covered == DOMAIN asset_data = DOMAIN weights /\ DOMAIN asset_data # {}

\* every weighted symbol has a price series and the other way round, and the
\* weights sum to 1
Invested == Covered /\ SetSum(weights, DOMAIN weights) = One

\* the dates of the value series: 1..(length of the longest price series)
Dates ==
    LET lens == {Len(asset_data[s]) : s \in DOMAIN asset_data}
    IN  IF lens = {} THEN {}
        ELSE 1..(CHOOSE n \in lens : \A m \in lens : m <= n)

\* symbols with a weight and a defined day-over-day return at date t
Contributing(t) ==
    {s \in DOMAIN asset_data \cap DOMAIN weights : t >= 2 /\ t <= Len(asset_data[s])}

RefWeightedReturn(t) ==
    [s \in Contributing(t) |->
        FMul(R(asset_data[s][t] - asset_data[s][t - 1], asset_data[s][t - 1]),
             weights[s])]

RECURSIVE RefValue(_, _)
RefValue(initial_investment, t) ==
    IF t = 0 THEN initial_investment
    ELSE FMul(RefValue(initial_investment, t - 1),
              FAdd(One, SetSum(RefWeightedReturn(t), Contributing(t))))

\* C8: calculate_portfolio_value(initial_investment) returns, at every date t,
\* initial_investment times the product over the dates up to t of (1 + the sum
\* over the symbols of return times weight), an undefined return contributing
\* nothing; so for a single asset of weight 1 the value at the last date is
\* initial_investment * last close / first close.
C8_PortfolioValueIsCompoundedReturn ==
    op = "calculate_portfolio_value" =>
        /\ DOMAIN result = Dates
        /\ \A t \in Dates : result[t] = RefValue(arg, t)
        /\ \A s \in Symbols :
              (DOMAIN asset_data = {s} /\ DOMAIN weights = {s} /\ weights[s] = One)
              => result[Len(asset_data[s])] =
                    FMul(arg, R(asset_data[s][Len(asset_data[s])], asset_data[s][1]))

\* C8 witness: one asset of weight 1.0 whose price doubles over three dates
\* turns 100000 into 200000.
C8_Witness ==
    /\ op = "calculate_portfolio_value"
    /\ arg = R(100000, 1)
    /\ DOMAIN asset_data = {"A"}
    /\ asset_data["A"] = <<1, 1, 2>>
    /\ weights = [s \in {"A"} |-> One]
    /\ result[3] = R(200000, 1)

\* C9 as stated: the first date of the window is a gap (NaN) in the value
\* series returned by calculate_portfolio_value.
C9_FirstDateIsGap ==
    (op = "calculate_portfolio_value" /\ Invested) => IsNaN(result[1])

\* C9 amended: the first date, whose returns are all undefined, is assigned the
\* numeric value initial_investment (the row sum skips the undefined returns,
\* so the portfolio return of that date is 0); it is not a gap.
C9_FirstDateIsInitialInvestment ==
    (op = "calculate_portfolio_value" /\ Len(result) >= 1) =>
        /\ IsFin(result[1])
        /\ result[1] = arg

\* C9 witness: a two-asset analyzer whose value series starts at 100000.
C9_Witness ==
    /\ op = "calculate_portfolio_value"
    /\ arg = R(100000, 1)
    /\ DOMAIN asset_data = {"A", "B"}
    /\ DOMAIN weights = {"A", "B"}
    /\ Len(result) >= 2
    /\ result[1] = R(100000, 1)
    /\ result[2] # R(100000, 1)

\* at least two closes per series, all equal
ConstantCloses ==
    /\ Invested
    /\ \A s \in DOMAIN asset_data :
          /\ Len(asset_data[s]) >= 2
          /\ \A t \in DOMAIN asset_data[s] : asset_data[s][t] = asset_data[s][1]

NaNOrInf(x) == x.k \in {"nan", "inf"}

\* C5: on price series whose closes are all equal, calculate_risk_metrics
\* reports annual_return = 0 and annual_volatility = 0, and sharpe_ratio and
\* sortino_ratio are an "undefined" value that is neither NaN nor infinite.
C5_ConstantClosesGiveUndefinedRatios ==
    (op = "calculate_risk_metrics" /\ ConstantCloses) =>
        /\ result.annual_return = Zero
        /\ result.annual_volatility = Zero
        /\ ~NaNOrInf(result.sharpe_ratio)
        /\ ~NaNOrInf(result.sortino_ratio)

\* C6: when the mean-variance optimizer fails, optimize_portfolio returns to
\* its caller (with an "optimization failed" outcome); no exception leaves it.
C6_OptimizerFailureIsReturned ==
    (op = "optimize_portfolio" /\ Invested /\ arg.outcome # "solved") =>
        Returned(result)

(***************************************************************************)
(* Rebalancing                                                              *)
(***************************************************************************)
\* latest close times stored weight, for a symbol that has both
RefPosition ==
    [s \in DOMAIN asset_data \cap DOMAIN weights |->
        FMul(R(asset_data[s][Len(asset_data[s])], 1), weights[s])]

RefCurrentWeight(s) ==
    FDiv(RefPosition[s], SetSum(RefPosition, DOMAIN RefPosition))

\* |x| > threshold for finite x, by cross-multiplication
Exceeds(x, threshold) ==
    /\ IsFin(x)
    /\ Abs(x.n) * threshold.d > threshold.n * x.d

\* C2: when the asset data and the weight map do not cover the same symbols,
\* check_rebalancing_needs and get_rebalancing_trades still return a result.
C2_MismatchedSymbolsStillReturn ==
    (/\ op \in {"check_rebalancing_needs", "get_rebalancing_trades"}
     /\ DOMAIN asset_data # {}
     /\ DOMAIN asset_data # DOMAIN weights) => Returned(result)

\* C4: check_rebalancing_needs(threshold) reports, for every symbol,
\* current weight = latest close * stored weight / the sum of these over all
\* symbols and drift = current weight - target weight; rebalance_needed is True
\* exactly when some |drift| is strictly greater than the threshold. Current
\* weights {A: 0.6, B: 0.4} against targets {A: 0.5, B: 0.5} give True at 0.05
\* and False at 0.15 (and False at 0.10, where the drift equals the threshold).
C4_DriftAndStrictThreshold ==
    (op = "check_rebalancing_needs" /\ Returned(result)) =>
        /\ DOMAIN result.current_weights = DOMAIN weights
        /\ DOMAIN result.drift = DOMAIN weights
        /\ result.target_weights = weights
        /\ \A s \in DOMAIN weights :
              /\ result.current_weights[s] = RefCurrentWeight(s)
              /\ result.drift[s] = FSub(RefCurrentWeight(s), weights[s])
        /\ result.rebalance_needed
              = (\E s \in DOMAIN weights : Exceeds(result.drift[s], arg))
        /\ (/\ weights = [s \in {"A", "B"} |-> R(1, 2)]
            /\ result.current_weights = ("A" :> R(3, 5)) @@ ("B" :> R(2, 5)))
           => result.rebalance_needed = (arg = R(1, 20))

\* C4 witness: current weights {A: 0.6, B: 0.4}, targets {A: 0.5, B: 0.5},
\* threshold 0.15: no rebalancing.
C4_Witness ==
    /\ op = "check_rebalancing_needs"
    /\ arg = R(3, 20)
    /\ Returned(result)
    /\ weights = [s \in {"A", "B"} |-> R(1, 2)]
    /\ result.current_weights = ("A" :> R(3, 5)) @@ ("B" :> R(2, 5))
    /\ result.drift = ("A" :> R(1, 10)) @@ ("B" :> R(-1, 10))
    /\ ~result.rebalance_needed

\* C3 as stated: get_rebalancing_trades returns an empty result whenever
\* check_rebalancing_needs on the same analyzer reports rebalance_needed=False,
\* whatever threshold that check was made with.
C3_EmptyWheneverACheckReportsFalse ==
    op = "get_rebalancing_trades" =>
        \A threshold \in Thresholds :
            LET info == check_rebalancing_needs(asset_data, weights, threshold)
            IN  (Returned(info) /\ ~info.rebalance_needed)
                => (Returned(result) /\ DOMAIN result.trades = {})

\* C3 amended: get_rebalancing_trades returns an empty result whenever
\* check_rebalancing_needs at its default threshold 0.05 reports
\* rebalance_needed=False, and one trade entry per symbol of the weight map
\* when that check reports True.
C3_EmptyIffDefaultCheckReportsFalse ==
    op = "get_rebalancing_trades" =>
        LET info == check_rebalancing_needs(asset_data, weights, DefaultThreshold)
        IN  Returned(info) =>
              /\ Returned(result)
              /\ ~info.rebalance_needed => DOMAIN result.trades = {}
              /\ info.rebalance_needed => DOMAIN result.trades = DOMAIN weights

\* C3 witness: both cases happen, here the one with trades: A is sold, B bought.
C3_Witness ==
    /\ op = "get_rebalancing_trades"
    /\ arg = R(1000, 1)
    /\ Returned(result)
    /\ weights = [s \in {"A", "B"} |-> R(1, 2)]
    /\ DOMAIN result.trades = {"A", "B"}
    /\ result.trades["A"].action = "sell"
    /\ result.trades["A"].value = R(-100, 1)
    /\ result.trades["B"].action = "buy"

(***************************************************************************)
(* DataFetcher.  A DataFrame is [source, id, close]: which upstream source  *)
(* answered, for which identifier, and the Close column; it is empty when   *)
(* close is.  fetch_all_assets is a loop over the asset types and their     *)
(* symbols, one action per fetch_* call.                                    *)
(***************************************************************************)
FetchSymbols == {"RELIANCE.NS", "BTC-USD", "GC=F"}

\* the keys of the portfolio spec, in the order the Dashboard builds it
AssetTypes == <<"stocks", "crypto", "commodities">>

EmptyFrame == [source |-> "none", id |-> "", close |-> <<>>]

IsEmpty(frame) == frame.close = <<>>

\* what an upstream call can do: raise, or answer with a (possibly empty) table
Answer(raises, close) == [raises |-> raises, close |-> close]

Upstream ==
    {Answer(TRUE, <<>>), Answer(FALSE, <<>>)}
        \cup {Answer(FALSE, <<p>>) : p \in 1..MaxPayload}

\* symbol.replace('.NS', '')
CleanSymbol(symbol) == IF symbol = "RELIANCE.NS" THEN "RELIANCE" ELSE symbol

_get_coin_id(symbol) ==
    CASE symbol = "BTC-USD" -> "bitcoin"
      [] symbol = "ETH-USD" -> "ethereum"
      [] symbol = "USDT-USD" -> "tether"
      [] symbol = "BNB-USD" -> "binancecoin"
      [] symbol = "XRP-USD" -> "ripple"
      [] OTHER -> ""

\* try: get_history(...)[columns]; except Exception: return pd.DataFrame()
\* (selecting the columns of an empty answer raises KeyError, caught as well)
fetch_stock_data(symbol, answer) ==
    IF answer.raises \/ answer.close = <<>> THEN EmptyFrame
    ELSE [source |-> "nse", id |-> CleanSymbol(symbol), close |-> answer.close]

fetch_crypto_data(symbol, answer) ==
    LET coin_id == _get_coin_id(symbol)
    IN  IF coin_id = "" THEN EmptyFrame
        ELSE IF answer.raises THEN EmptyFrame
        ELSE [source |-> "coingecko", id |-> coin_id, close |-> answer.close]

fetch_gold_data(symbol, answer) ==
    IF answer.raises \/ answer.close = <<>> THEN EmptyFrame
    ELSE [source |-> "yfinance", id |-> symbol, close |-> answer.close]

\* a plausible slip: the entry is stored without the emptiness test
StoreAlways(ad, symbol, frame) ==
    [s \in DOMAIN ad \cup {symbol} |-> IF s = symbol THEN frame ELSE ad[s]]

\* lines 90-91: if not data.empty: asset_data[symbol] = data
Store(ad, symbol, frame) ==
    IF ~IsEmpty(frame)
    THEN [s \in DOMAIN ad \cup {symbol} |-> IF s = symbol THEN frame ELSE ad[s]]
    ELSE ad

RECURSIVE SeqsUpTo(_, _)
SeqsUpTo(S, n) ==
    IF n = 0 THEN {<<>>}
    ELSE SeqsUpTo(S, n - 1)
         \cup {Append(q, x) : q \in {r \in SeqsUpTo(S, n - 1) : Len(r) = n - 1}, x \in S}

PortfolioSpecs ==
    {p \in [stocks : SeqsUpTo(FetchSymbols, MaxSymbols),
            crypto : SeqsUpTo(FetchSymbols, MaxSymbols),
            commodities : SeqsUpTo(FetchSymbols, MaxSymbols)] :
        Len(p.stocks) + Len(p.crypto) + Len(p.commodities) <= MaxSymbols}

FetchInit ==
    /\ portfolio \in PortfolioSpecs
    /\ pos = <<1, 1>>
    /\ data = "unbound"
    /\ asset_data = <<>>
    /\ log = <<>>
    /\ op = "init"
    /\ arg = <<>>
    /\ result = <<>>
    /\ weights = <<>>
    /\ session_state = <<>>
    /\ widgets = <<>>

Looping == op = "init" /\ pos[1] <= Len(AssetTypes)

asset_type == AssetTypes[pos[1]]

assets == portfolio[asset_type]

\* one iteration of the inner loop, `frame` being what the fetch_* call returned
Iterate(frame) ==
    LET symbol == assets[pos[2]]
    IN  /\ data' = frame
        /\ asset_data' = Store(asset_data, symbol, frame)
        /\ log' = Append(log, [asset_type |-> asset_type, symbol |-> symbol,
                               frame |-> frame])
        /\ pos' = <<pos[1], pos[2] + 1>>
        /\ UNCHANGED <<portfolio, op, arg, result, weights, session_state, widgets>>

FetchStock ==
    /\ Looping /\ pos[2] <= Len(assets) /\ asset_type = "stocks"
    /\ \E answer \in Upstream : Iterate(fetch_stock_data(assets[pos[2]], answer))

FetchCrypto ==
    /\ Looping /\ pos[2] <= Len(assets) /\ asset_type = "crypto"
    /\ \E answer \in Upstream : Iterate(fetch_crypto_data(assets[pos[2]], answer))

FetchGold ==
    /\ Looping /\ pos[2] <= Len(assets) /\ asset_type = "commodities"
    /\ \E answer \in Upstream : Iterate(fetch_gold_data(assets[pos[2]], answer))

\* the inner loop is exhausted: on to the next asset type
NextAssetType ==
    /\ Looping /\ pos[2] > Len(assets)
    /\ pos' = <<pos[1] + 1, 1>>
    /\ UNCHANGED <<portfolio, data, asset_data, log, op, arg, result, weights,
                   session_state, widgets>>

\* line 93: return asset_data
ReturnAssetData ==
    /\ op = "init" /\ pos[1] > Len(AssetTypes)
    /\ op' = "fetch_all_assets"
    /\ result' = asset_data
    /\ UNCHANGED <<portfolio, pos, data, asset_data, log, arg, weights, session_state,
                   widgets>>

FetchNext ==
    \/ FetchStock
    \/ FetchCrypto
    \/ FetchGold
    \/ NextAssetType
    \/ ReturnAssetData

SpecFetch == FetchInit /\ [][FetchNext]_vars

\* the symbols of the portfolio spec in fetch order
Requested == portfolio.stocks \o portfolio.crypto \o portfolio.commodities

\* the calls that answered `symbol` with data
Answered(symbol) ==
    {i \in DOMAIN log : log[i].symbol = symbol /\ log[i].frame.close # <<>>}

\* C1: fetch_all_assets returns normally for every portfolio spec and every
\* pattern of fetch outcomes (data, empty, failure): every symbol is fetched,
\* the returned mapping holds exactly the symbols a fetch answered with data,
\* each mapped to the data its own (latest) fetch returned; a symbol whose
\* fetches all failed or came back empty is absent and costs no other symbol
\* its entry.
C1_FetchFailuresAreIndependent ==
    /\ op = "init" => ENABLED FetchNext
    /\ op = "fetch_all_assets" =>
          /\ [i \in DOMAIN log |-> log[i].symbol] = Requested
          /\ DOMAIN result = {s \in FetchSymbols : Answered(s) # {}}
          /\ \A s \in DOMAIN result :
                \E i \in Answered(s) :
                    /\ result[s] = log[i].frame
                    /\ \A j \in Answered(s) : j <= i

\* C1 witness: a three-symbol portfolio where the crypto fetch failed (the
\* request raised) and the two symbols fetched before and after it are returned.
C1_Witness ==
    /\ op = "fetch_all_assets"
    /\ portfolio = [stocks |-> <<"RELIANCE.NS">>, crypto |-> <<"BTC-USD">>,
                    commodities |-> <<"GC=F">>]
    /\ Len(log) = 3
    /\ log[2].frame = EmptyFrame
    /\ DOMAIN result = {"RELIANCE.NS", "GC=F"}
    /\ result["RELIANCE.NS"] = [source |-> "nse", id |-> "RELIANCE", close |-> <<1>>]
    /\ result["GC=F"] = [source |-> "yfinance", id |-> "GC=F", close |-> <<2>>]

(***************************************************************************)
(* Dashboard.  A text input is the sequence of symbols typed into it        *)
(* (split at the commas and stripped), <<>> for an empty input; every user  *)
(* interaction re-runs run() to its end or to the exception that leaves it. *)
(***************************************************************************)
\* the symbols the user types into each text input
DashSymbols(field) ==
    CASE field = "stocks" -> {"A", "B"}
      [] field = "crypto" -> {"B", "C"}
      [] field = "commodities" -> {"C"}

\* values of a weight number_input: its minimum, its default 0.1, and others
RawWeights == {Zero, R(1, 10), R(3, 10)}
DefaultRaw == R(1, 10)

\* the analyzers a Dashboard is constructed with
DashAssetData ==
    {[s \in {"A"} |-> <<1, 2>>],
     ("A" :> <<1, 3>>) @@ ("B" :> <<2, 2>>)}

DashWeights ==
    {[s \in {"A"} |-> One],
     [s \in {"A", "B"} |-> R(1, 2)]}

Range(seq) == {seq[i] : i \in DOMAIN seq}

Typed(w) == Range(w.stocks) \cup Range(w.crypto) \cup Range(w.commodities)

\* a plausible slip: the division made without the total_weight > 0 guard
NormalizeWeightsUnguarded(w) ==
    LET total_weight == SeqSum([i \in DOMAIN Keys(w) |-> w[Keys(w)[i]]])
    IN  [k \in DOMAIN w |-> FDiv(w[k], total_weight)]

\* lines 69-71: divide by the total when it is positive
NormalizeWeights(w) ==
    LET total_weight == SeqSum([i \in DOMAIN Keys(w) |-> w[Keys(w)[i]]])
    IN  IF FGt(total_weight, Zero)
        THEN [k \in DOMAIN w |-> FDiv(w[k], total_weight)]
        ELSE w

\* lines 51-79: what _create_sidebar stores in the session state
_create_sidebar(w) ==
    [weights |-> NormalizeWeights([symbol \in Typed(w) |-> w.raw[symbol]]),
     portfolio |-> [stocks |-> w.stocks, crypto |-> w.crypto,
                    commodities |-> w.commodities]]

\* f"{x:.2%}" / f"{x:.2f}": the formatted text of a metric, kept symbolic
Format(fmt, x) == [fmt |-> fmt, of |-> x]

NothingShown ==
    [overview |-> "info", value |-> "none", metrics |-> "none",
     rebalancing |-> "none", suggestion |-> "none", raised |-> "none"]

\* lines 140-171, entered with non-empty session weights
_show_rebalancing_alerts(ad, w, clicked, outcome, cleaned_weights) ==
    LET rebalance_info == check_rebalancing_needs(ad, w, DefaultThreshold)
    IN  IF ~Returned(rebalance_info)
        THEN [rebalancing |-> "none", suggestion |-> "none",
              raised |-> rebalance_info.status]
        ELSE IF ~rebalance_info.rebalance_needed
        THEN [rebalancing |-> "success", suggestion |-> "none", raised |-> "none"]
        ELSE IF ~clicked
        THEN [rebalancing |-> "warning", suggestion |-> "none", raised |-> "none"]
        ELSE LET opt_result == optimize_portfolio(ad, outcome, cleaned_weights)
             IN  IF Returned(opt_result)
                 THEN [rebalancing |-> "warning",
                       suggestion |-> opt_result.optimal_weights,
                       raised |-> "none"]
                 ELSE [rebalancing |-> "warning", suggestion |-> "none",
                       raised |-> opt_result.status]

\* lines 20-29: what one pass of run() puts on the page after the sidebar
Render(ss, ad, w, clicked, outcome, cleaned_weights) ==
    IF DOMAIN ss.weights = {} THEN NothingShown
    ELSE LET metrics == calculate_risk_metrics(ad, w)
             alerts == _show_rebalancing_alerts(ad, w, clicked, outcome,
                                                cleaned_weights)
         IN  [overview |-> ss.weights,
              value |-> calculate_portfolio_value(ad, w, R(100000, 1)),
              metrics |-> [annual_return |-> Format(".2%", metrics.annual_return),
                           sharpe_ratio |-> Format(".2f", metrics.sharpe_ratio),
                           annual_volatility |->
                               Format(".2%", metrics.annual_volatility),
                           var_95 |-> Format(".2%", metrics.var_95)],
              rebalancing |-> alerts.rebalancing,
              suggestion |-> alerts.suggestion,
              raised |-> alerts.raised]

DashInit ==
    /\ asset_data \in DashAssetData
    /\ weights \in DashWeights
    /\ widgets = [stocks |-> <<>>, crypto |-> <<>>, commodities |-> <<>>,
                  raw |-> <<>>]
    /\ session_state = <<>>
    /\ op = "init"
    /\ arg = <<>>
    /\ result = <<>>
    /\ portfolio = NoFetch
    /\ pos = <<0, 0>>
    /\ data = "unbound"
    /\ log = <<>>

\* Dashboard.run() with the widgets holding w
Run(w, clicked, outcome, cleaned_weights) ==
    /\ widgets' = w
    /\ session_state' = _create_sidebar(w)
    /\ op' = "run"
    /\ arg' = [clicked |-> clicked]
    /\ result' = Render(_create_sidebar(w), asset_data, weights, clicked, outcome,
                        cleaned_weights)
    /\ UNCHANGED <<asset_data, weights, portfolio, pos, data, log>>

\* the weight inputs shown for the typed symbols: a new one holds the default
RawFor(w, raw) ==
    [symbol \in Typed(w) |-> IF symbol \in DOMAIN raw THEN raw[symbol] ELSE DefaultRaw]

WithText(field, text) ==
    LET w == [widgets EXCEPT ![field] = text]
    IN  [w EXCEPT !.raw = RawFor(w, widgets.raw)]

Tokens(w) == Len(w.stocks) + Len(w.crypto) + Len(w.commodities)

\* the user adds a symbol to a text input, or deletes its last one
TextEdits(field, text) ==
    {Append(text, symbol) : symbol \in DashSymbols(field)}
        \cup (IF text = <<>> THEN {} ELSE {SubSeq(text, 1, Len(text) - 1)})

LoadPage ==
    /\ op = "init"
    /\ Run(widgets, FALSE, "solved", <<>>)

EditSymbols ==
    /\ op = "run"
    /\ \E field \in {"stocks", "crypto", "commodities"} :
          \E text \in TextEdits(field, widgets[field]) :
              /\ Tokens(WithText(field, text)) <= MaxTokens
              /\ Run(WithText(field, text), FALSE, "solved", <<>>)

EditWeight ==
    /\ op = "run"
    /\ \E symbol \in DOMAIN widgets.raw :
          \E v \in RawWeights :
              Run([widgets EXCEPT !.raw[symbol] = v], FALSE, "solved", <<>>)

\* the button exists on the page only under the rebalancing warning
ClickOptimize ==
    /\ op = "run"
    /\ result.rebalancing = "warning"
    /\ \E outcome \in OptimizerOutcomes :
          \E cleaned_weights \in LongOnly(DOMAIN asset_data) \cup {<<>>} :
              /\ (outcome = "solved") = (cleaned_weights # <<>>)
              /\ Run(widgets, TRUE, outcome, cleaned_weights)

DashNext ==
    \/ LoadPage
    \/ EditSymbols
    \/ EditWeight
    \/ ClickOptimize

SpecDash == DashInit /\ [][DashNext]_vars

\* the raw weight map of the last pass: one entry per typed symbol
RawMap == [symbol \in Typed(widgets) |-> widgets.raw[symbol]]

RawTotal == SetSum(RawMap, DOMAIN RawMap)

\* C7: the weight map _create_sidebar stores is, when the raw weights sum to
\* more than 0, each raw weight divided by that sum, every entry in [0,1] and
\* the entries summing to 1 (raw weights in the ratio 2:2:6 become 0.2, 0.2,
\* 0.6); when the sum is 0 the raw map is stored unchanged.
C7_WeightsNormalized ==
    op = "run" =>
        /\ DOMAIN session_state.weights = DOMAIN RawMap
        /\ RawTotal = Zero => session_state.weights = RawMap
        /\ RawTotal # Zero =>
              /\ \A k \in DOMAIN RawMap :
                    LET x == session_state.weights[k]
                    IN  /\ IsFin(x)
                        /\ x.n * RawTotal.n * RawMap[k].d
                              = RawMap[k].n * x.d * RawTotal.d
                        /\ 0 <= x.n /\ x.n <= x.d
              /\ SetSum(session_state.weights, DOMAIN RawMap) = One

\* C7 witness: raw weights 0.1, 0.1, 0.3 (the ratio 2:2:6) are stored as 0.2,
\* 0.2, 0.6.
C7_Witness ==
    /\ op = "run"
    /\ RawMap = ("A" :> R(1, 10)) @@ ("B" :> R(1, 10)) @@ ("C" :> R(3, 10))
    /\ session_state.weights = ("A" :> R(1, 5)) @@ ("B" :> R(1, 5)) @@ ("C" :> R(3, 5))

\* C10: every render pass shows a portfolio value computed from the weight map
\* the session state holds at that pass, over price series of the symbols of the
\* portfolio spec it holds; nothing shown predates the latest portfolio change.
C10_RenderUsesSessionState ==
    (op = "run" /\ DOMAIN session_state.weights # {} /\ result.raised = "none") =>
        /\ DOMAIN asset_data \subseteq Typed(session_state.portfolio)
        /\ result.value =
              calculate_portfolio_value(asset_data, session_state.weights,
                                        R(100000, 1))

\* C6, at the dashboard: a failure of the optimizer behind the "Get
\* Optimization Suggestion" button does not leave run() as an exception.
C6_ButtonHandlerSurvivesFailure ==
    (op = "run" /\ arg.clicked) => result.raised = "none"

====
